---- MODULE Spec2Model ----
(***************************************************************************)
(* Sensor drivers of the air-quality station: DGS2 (ASCII serial),        *)
(* MCP3208 (ADC, with the HCHO and NH3 specialisations), MICS6814         *)
(* (resistive gas) and SEN66 (particulate / VOC).  One driver instance is  *)
(* modelled at a time; `kind` says which class it is.  Every method is an *)
(* operator from the instance's fields and the device's responses to the  *)
(* new fields, the returned value and whether an exception escaped.       *)
(***************************************************************************)
EXTENDS Integers, Sequences, FiniteSets, TLC

VARIABLES
    kind,               \* class of the instance
    available,          \* MICS6814_AVAILABLE / SENSIRION_AVAILABLE (TRUE for the others)
    initialized,        \* self.initialized
    connected,          \* self.connected
    handle,             \* self.ser / self.spi / self.gas / self.transceiver: "None" or "obj"
    last_valid_reading, \* self.last_valid_reading
    baseline,           \* self.baseline (MICS6814)
    dev_open,           \* the transport object `handle` refers to is open
    led,                \* colour of the MICS6814 LED
    heater,             \* MICS6814 heater powered
    channel,            \* self.channel (MCP3208)
    sensitivity,        \* self.sensitivity (MCP3208), nA/ppm
    op,                 \* the last method the caller invoked
    ret_ok,             \* value returned by the last connect()
    ret_data,           \* value returned by the last read_measurement()
    raised,             \* the last call let an exception escape
    n_init,             \* initialize() attempts made during the last call
    n_xfer,             \* measurement transactions issued by the last read_measurement()
    n_base,             \* baseline read_all() transactions issued by initialize()
                        \* during the last call (MICS6814)
    xfer_exc,           \* the transport raised inside the last read's transaction
    fresh,              \* the record the last read built from the device's answer
    pre_initialized,    \* self.initialized when the last call started
    pre_cache,          \* self.last_valid_reading when the last call started
    ever_connected,     \* some initialize() has returned True
    constructed,        \* __init__ returned an instance (it did not raise)
    heated,             \* set_heater(True) returned during the last call (MICS6814)
    pre_led,            \* colour of the LED when the last call started
    adc,                \* last xfer2 of read_channel: command, response, result
    parse_in,           \* the string the last read gave to parse_measurement
    parse_out,          \* what parse_measurement returned for it
    enable_led,         \* self.enable_led (MICS6814)
    orphan_open,        \* a transport object the instance opened, and no longer
                        \* refers to, is still open
    test_sent,          \* the last initialize() wrote the test command and read a line
    sen_values,         \* the vector read_measured_values() returned to the last read
    call_arg,           \* argument of the last call, when it was a direct call of
                        \* is_valid_reading / calculate_ppm / update_led (else None)
    call_ret,           \* what that call returned
    attrs_set           \* __init__ ran past the library check, so self.initialized
                        \* (and self.baseline, self.enable_led, self.gas) exist

vars == <<kind, available, initialized, connected, handle, last_valid_reading,
          baseline, dev_open, led, heater, channel, sensitivity, op, ret_ok, ret_data, raised,
          n_init, n_xfer, n_base, xfer_exc, fresh, pre_initialized, pre_cache, ever_connected,
          constructed, heated, pre_led, adc, parse_in, parse_out, enable_led,
          orphan_open, test_sent, sen_values, call_arg, call_ret, attrs_set>>

----------------------------------------------------------------------------
(* Exact arithmetic.  Python floats are modelled as reduced fractions n/d  *)
(* with d > 0, so that equal values are equal records.  The floats that    *)
(* are not numbers have d = 0: nan is 0/0, inf is 1/0 and -inf is -1/0.    *)

RECURSIVE GCD(_, _)
GCD(a, b) == IF b = 0 THEN a ELSE GCD(b, a % b)

Abs(x) == IF x < 0 THEN -x ELSE x

R(n, d) ==
    LET g == GCD(Abs(n), Abs(d))
        sgn == IF d < 0 THEN -1 ELSE 1
    IN  [n |-> sgn * (n \div g), d |-> sgn * (d \div g)]

RInt(i) == [n |-> i, d |-> 1]

NaN == [n |-> 0, d |-> 0]

\* float("inf") for sgn = 1, float("-inf") for sgn = -1
Inf(sgn) == [n |-> sgn, d |-> 0]

IsNaN(x) == x.d = 0 /\ x.n = 0

\* a < b: False whenever an operand is nan
RLt(a, b) ==
    IF IsNaN(a) \/ IsNaN(b) THEN FALSE
    ELSE IF a.d = 0 THEN a.n < 0 /\ b /= a
    ELSE IF b.d = 0 THEN b.n > 0
    ELSE a.n * b.d < b.n * a.d

\* a <= b: False whenever an operand is nan
RLe(a, b) == ~IsNaN(a) /\ ~IsNaN(b) /\ ~RLt(b, a)

RSub(a, b) ==
    IF IsNaN(a) \/ IsNaN(b) THEN NaN
    ELSE IF a.d = 0 THEN (IF a = b THEN NaN ELSE a)
    ELSE IF b.d = 0 THEN Inf(-b.n)
    ELSE R(a.n * b.d - b.n * a.d, a.d * b.d)

\* product, cross-reduced first so that intermediate values stay small
RMul(a, b) ==
    LET g1 == GCD(Abs(a.n), b.d)
        g2 == GCD(Abs(b.n), a.d)
    IN  IF a.d = 0 \/ b.d = 0
        THEN IF a.n = 0 \/ b.n = 0 THEN NaN
             ELSE Inf(IF (a.n < 0) = (b.n < 0) THEN 1 ELSE -1)
        ELSE R((a.n \div g1) * (b.n \div g2), (a.d \div g2) * (b.d \div g1))

RDiv(a, b) == RMul(a, IF b.n < 0 THEN [n |-> -b.d, d |-> -b.n] ELSE [n |-> b.d, d |-> b.n])

RMax(a, b) == IF RLt(a, b) THEN b ELSE a

None == [sensor |-> "None"]

\* no xfer2 transaction was made
NoXfer == [cmd |-> <<>>, resp |-> <<>>, result |-> 0]

----------------------------------------------------------------------------
(* The instance, as the methods see it.                                    *)

Self ==
    [kind |-> kind, available |-> available, initialized |-> initialized,
     connected |-> connected, handle |-> handle,
     last_valid_reading |-> last_valid_reading, baseline |-> baseline,
     dev_open |-> dev_open, led |-> led, heater |-> heater,
     channel |-> channel, sensitivity |-> sensitivity,
     n_init |-> 0, n_xfer |-> 0, n_base |-> 0, xfer_exc |-> FALSE, init_ok |-> FALSE,
     fresh |-> None, heated |-> FALSE, adc |-> NoXfer,
     parse_in |-> <<>>, parse_out |-> None, enable_led |-> enable_led,
     orphan_open |-> orphan_open, test_sent |-> FALSE, sen_values |-> <<>>,
     attrs_set |-> attrs_set]

\* the value of a Python expression used as a condition: None is falsy, a
\* non-empty dict is truthy
Truthy(data) == data /= None

----------------------------------------------------------------------------
(* DGS2Sensor: text lines.  A line is a sequence of tokens: a comma, white *)
(* space, an integer literal (what int() accepts), another literal of a    *)
(* finite float ("25.5", "1e3": float() accepts it, int() does not), the   *)
(* text "nan", the texts "inf" / "infinity" with their sign, or text that  *)
(* float() rejects ("abc").  x10 is ten times the literal's value.         *)

Comma == [k |-> "comma", x10 |-> 0]
Sp == [k |-> "sp", x10 |-> 0]
Txt == [k |-> "txt", x10 |-> 0]
IntTok(i) == [k |-> "int", x10 |-> 10 * i]
DecTok(x10) == [k |-> "dec", x10 |-> x10]
NanTok == [k |-> "nan", x10 |-> 0]
InfTok(sgn) == [k |-> "inf", x10 |-> sgn]

\* str.strip()
RECURSIVE LStrip(_)
LStrip(str) ==
    IF str /= <<>> /\ Head(str) = Sp THEN LStrip(Tail(str)) ELSE str

RECURSIVE RStrip(_)
RStrip(str) ==
    IF str /= <<>> /\ str[Len(str)] = Sp
    THEN RStrip(SubSeq(str, 1, Len(str) - 1))
    ELSE str

strip(str) == RStrip(LStrip(str))

\* str.split(','): the fields between the commas; "" gives one empty field
RECURSIVE split(_)
split(str) ==
    IF \A i \in 1..Len(str) : str[i] /= Comma
    THEN <<str>>
    ELSE LET i == CHOOSE j \in 1..Len(str) :
                     /\ str[j] = Comma
                     /\ \A m \in 1..(j - 1) : str[m] /= Comma
         IN  <<SubSeq(str, 1, i - 1)>> \o split(SubSeq(str, i + 1, Len(str)))

\* int(text) and float(text): ok is FALSE where Python raises ValueError
int(text) ==
    LET f == strip(text)
    IN  IF Len(f) = 1 /\ f[1].k = "int"
        THEN [ok |-> TRUE, v |-> f[1].x10 \div 10]
        ELSE [ok |-> FALSE, v |-> 0]

float(text) ==
    LET f == strip(text)
    IN  IF Len(f) = 1 /\ f[1].k \in {"int", "dec"}
        THEN [ok |-> TRUE, v |-> R(f[1].x10, 10)]
        ELSE IF Len(f) = 1 /\ f[1].k = "nan" THEN [ok |-> TRUE, v |-> NaN]
        ELSE IF Len(f) = 1 /\ f[1].k = "inf" THEN [ok |-> TRUE, v |-> Inf(f[1].x10)]
        ELSE [ok |-> FALSE, v |-> RInt(0)]

----------------------------------------------------------------------------
(* What a method hands back: the instance's fields after it, the value it  *)
(* returns, and whether an exception left it.                              *)

Ret(s, ret, exc) == [s |-> s, ret |-> ret, exc |-> exc]

----------------------------------------------------------------------------
(* DGS2Sensor.  e is what the serial port does during the call:            *)
(* open_fails (serial.Serial raises), close_fails (ser.close raises),      *)
(* io_fails (write or readline raises), line (the line the device sends).  *)

DGS2_cleanup(s, e) ==
    LET body ==
            IF s.handle /= "None" /\ e.close_fails
            THEN [s |-> s, exc |-> TRUE]
            ELSE [s |-> [s EXCEPT !.initialized = FALSE,
                                  !.connected = FALSE,
                                  !.dev_open = IF s.handle /= "None" THEN FALSE ELSE @],
                  exc |-> FALSE]
    IN  \* except Exception: log_error
        Ret(body.s, None, FALSE)

\* io: a write/readline transaction was issued; io_exc: it raised
DGS2_send_command(s, command, e) ==
    IF ~s.initialized
    THEN [s |-> s, ret |-> <<>>, exc |-> FALSE, io |-> FALSE, io_exc |-> FALSE]
    ELSE IF e.io_fails \/ ~s.dev_open
         THEN \* except Exception: return ""
              [s |-> s, ret |-> <<>>, exc |-> FALSE, io |-> TRUE, io_exc |-> TRUE]
         ELSE [s |-> s, ret |-> strip(e.line), exc |-> FALSE, io |-> TRUE,
               io_exc |-> FALSE]

DGS2_initialize(s, e) ==
    LET s0 == [s EXCEPT !.n_init = @ + 1]
        \* except Exception: self.cleanup(); return False
        failed(c) == Ret(c.s, FALSE, c.exc)
        tested(t) == Ret([t.s EXCEPT !.initialized = TRUE, !.connected = TRUE,
                                     !.init_ok = TRUE, !.test_sent = t.io /\ ~t.io_exc],
                         TRUE, t.exc)
    IN  IF e.open_fails
        THEN \* serial.Serial raised: self.ser keeps its old value
             failed(DGS2_cleanup(s0, e))
        ELSE \* the port object self.ser referred to is dropped, not closed
             tested(DGS2_send_command([s0 EXCEPT !.handle = "obj", !.dev_open = TRUE,
                                                 !.orphan_open = @ \/ s.dev_open],
                                      <<>>, e))

DGS2_is_valid_reading(s, data) ==
    IF ~Truthy(data) THEN FALSE
    ELSE IF data.gas_ppb < 0 \/ RLt(data.gas_ppm, RInt(0)) THEN FALSE
    ELSE IF RLt(data.temperature, RInt(-40)) \/ RLt(RInt(85), data.temperature) THEN FALSE
    ELSE IF RLt(data.relative_humidity, RInt(0)) \/ RLt(RInt(100), data.relative_humidity)
         THEN FALSE
    ELSE TRUE

DGS2_parse_measurement(s, measurement_string) ==
    LET record(gas, temp, rh, g, t, h) ==
            IF gas.ok /\ temp.ok /\ rh.ok /\ g.ok /\ t.ok /\ h.ok
            THEN [sensor |-> s.kind,
                  gas_ppb |-> gas.v,
                  temperature |-> RDiv(temp.v, RInt(100)),
                  relative_humidity |-> RDiv(rh.v, RInt(100)),
                  adc_g |-> g.v,
                  adc_t |-> t.v,
                  adc_h |-> h.v,
                  gas_ppm |-> R(gas.v, 1000)]
            ELSE None   \* except Exception: return None
        fields(parts) ==
            IF Len(parts) >= 7
            THEN record(int(parts[2]), float(parts[3]), float(parts[4]),
                        int(parts[5]), int(parts[6]), int(parts[7]))
            ELSE None
    IN  fields(split(measurement_string))

\* the loop of read_measurement over data.items(): every numeric value whose
\* key does not contain 'temp' is replaced by 0 when negative
DGS2_sanitize(data) ==
    [data EXCEPT !.gas_ppb = IF @ < 0 THEN 0 ELSE @,
                 !.relative_humidity = IF RLt(@, RInt(0)) THEN RInt(0) ELSE @,
                 !.adc_g = IF @ < 0 THEN 0 ELSE @,
                 !.adc_t = IF @ < 0 THEN 0 ELSE @,
                 !.adc_h = IF @ < 0 THEN 0 ELSE @,
                 !.gas_ppm = IF RLt(@, RInt(0)) THEN RInt(0) ELSE @]

DGS2_read_measurement(s, e) ==
    LET cached(s1, d) == Ret([s1 EXCEPT !.last_valid_reading = d, !.fresh = d], d, FALSE)
        parsed(s1, data) ==
            IF Truthy(data) THEN cached(s1, DGS2_sanitize(data))
            ELSE Ret(s1, data, FALSE)
        noted(s1, str, data) ==
            parsed([s1 EXCEPT !.parse_in = str, !.parse_out = data], data)
        sent(r) ==
            noted([r.s EXCEPT !.n_xfer = IF r.io THEN @ + 1 ELSE @,
                              !.xfer_exc = r.io_exc],
                  r.ret, DGS2_parse_measurement(r.s, r.ret))
        body(x) == sent(DGS2_send_command(x, <<>>, e))
        after(i) ==
            IF i.exc THEN Ret(i.s, None, TRUE)
            ELSE IF ~i.ret THEN Ret(i.s, i.s.last_valid_reading, FALSE)
            ELSE body(i.s)
    IN  IF ~s.initialized THEN after(DGS2_initialize(s, e)) ELSE body(s)

----------------------------------------------------------------------------
(* MCP3208Sensor, HCHOSensor, NH3Sensor.  e is what the SPI device does:   *)
(* fail_at ("open": spi.open raises, "speed": setting max_speed_hz         *)
(* raises), close_fails, xfer_fails (xfer2 raises), resp (the bytes xfer2  *)
(* returns).                                                               *)

vref == R(3282, 1000)

r_feedback == 22000

FullScale == 4095

HighThreshold == 100

\* __init__(channel, ..., sensitivity): exc where it raises ValueError
MCP_init(ch, sens) ==
    IF ch < 0 \/ ch > 7 THEN [exc |-> TRUE]
    ELSE [exc |-> FALSE, channel |-> ch, sensitivity |-> sens, handle |-> "None",
          initialized |-> FALSE]

MCP_cleanup(s, e) ==
    LET body ==
            IF s.handle /= "None" /\ e.close_fails
            THEN [s |-> s, exc |-> TRUE]
            ELSE [s |-> [s EXCEPT !.initialized = FALSE,
                                  !.connected = FALSE,
                                  !.dev_open = IF s.handle /= "None" THEN FALSE ELSE @],
                  exc |-> FALSE]
    IN  \* except Exception: log_error
        Ret(body.s, None, FALSE)

MCP_initialize(s, e) ==
    LET \* self.spi = spidev.SpiDev(): a new object, not yet open
        \* the object self.spi referred to is dropped, not closed
        s1 == [s EXCEPT !.n_init = @ + 1, !.handle = "obj", !.dev_open = FALSE,
                        !.orphan_open = @ \/ s.dev_open]
        \* except Exception: self.cleanup(); return False
        failed(c) == Ret(c.s, FALSE, c.exc)
    IN  IF e.fail_at = "open" THEN failed(MCP_cleanup(s1, e))
        ELSE IF e.fail_at = "speed"
        THEN failed(MCP_cleanup([s1 EXCEPT !.dev_open = TRUE], e))
        ELSE Ret([s1 EXCEPT !.dev_open = TRUE, !.initialized = TRUE,
                            !.connected = TRUE, !.init_ok = TRUE],
                 TRUE, FALSE)

MCP_is_valid_reading(s, data) ==
    IF ~Truthy(data) THEN FALSE
    ELSE IF RLt(data.concentration, RInt(0)) THEN FALSE
    ELSE IF s.kind = "HCHO" /\ RLt(RInt(HighThreshold), data.concentration) THEN FALSE
    ELSE IF s.kind = "NH3" /\ RLt(RInt(HighThreshold), data.concentration) THEN FALSE
    ELSE TRUE

HCHO_is_valid_reading(s, data) ==
    IF ~MCP_is_valid_reading(s, data) THEN FALSE
    ELSE IF RLt(RInt(HighThreshold), data.concentration) THEN FALSE
    ELSE TRUE

NH3_is_valid_reading(s, data) ==
    IF ~MCP_is_valid_reading(s, data) THEN FALSE
    ELSE IF RLt(RInt(HighThreshold), data.concentration) THEN FALSE
    ELSE TRUE

\* cmd = [0b110 | ((channel & 0b100) >> 2), (channel & 0b011) << 6, 0]
MCP_cmd(ch) == <<6 + ((ch \div 4) % 2), (ch % 4) * 64, 0>>

\* the result assembled without masking the high bits of resp[1]
MCP_result_unmasked(resp) == resp[2] * 256 + resp[3]

\* ((resp[1] & 0x0F) << 8) | resp[2], resp indexed from 0
MCP_result(resp) == (resp[2] % 16) * 256 + resp[3]

\* MCP_read_channel with the guard lost: it opens the SPI device on every call
MCP_read_channel_reopens(s, e) ==
    LET xfer(s1) ==
            IF e.xfer_fails \/ ~s1.dev_open
            THEN Ret([s1 EXCEPT !.n_xfer = @ + 1, !.xfer_exc = TRUE], 0, FALSE)
            ELSE IF Len(e.resp) < 3
            THEN Ret([s1 EXCEPT !.n_xfer = @ + 1], 0, FALSE)
            ELSE Ret([s1 EXCEPT !.n_xfer = @ + 1,
                                !.adc = [cmd |-> MCP_cmd(s1.channel), resp |-> e.resp,
                                         result |-> MCP_result(e.resp)]],
                     MCP_result(e.resp), FALSE)
        after(i) ==
            IF i.exc THEN Ret(i.s, 0, TRUE)
            ELSE IF ~i.ret THEN Ret(i.s, 0, FALSE)
            ELSE xfer(i.s)
    IN  after(MCP_initialize(s, e))

MCP_read_channel(s, e) ==
    LET xfer(s1) ==
            IF e.xfer_fails \/ ~s1.dev_open
            THEN \* except Exception: return 0
                 Ret([s1 EXCEPT !.n_xfer = @ + 1, !.xfer_exc = TRUE], 0, FALSE)
            ELSE IF Len(e.resp) < 3
            THEN Ret([s1 EXCEPT !.n_xfer = @ + 1], 0, FALSE)   \* IndexError, caught
            ELSE Ret([s1 EXCEPT !.n_xfer = @ + 1,
                                !.adc = [cmd |-> MCP_cmd(s1.channel), resp |-> e.resp,
                                         result |-> MCP_result(e.resp)]],
                     MCP_result(e.resp), FALSE)
        after(i) ==
            IF i.exc THEN Ret(i.s, 0, TRUE)
            ELSE IF ~i.ret THEN Ret(i.s, 0, FALSE)
            ELSE xfer(i.s)
    IN  IF ~s.initialized \/ s.handle = "None" THEN after(MCP_initialize(s, e))
        ELSE xfer(s)

MCP_adc_to_voltage(s, adc_value) == RMul(R(adc_value, FullScale), vref)

\* ((vref - vout) / r_feedback) * 1e9, the two factors combined first
MCP_calculate_iout(s, vout) == RMul(RSub(vref, vout), R(1000000000, r_feedback))

\* the guard is self.sensitivity <= 0, which is False for a nan sensitivity:
\* the division is made and gives nan
MCP_calculate_concentration(s, iout) ==
    IF RLe(s.sensitivity, RInt(0)) THEN RInt(0)
    ELSE RDiv(iout, s.sensitivity)

\* concentration * 1000, kept as the pair (x, times)
Times(x, k) == [x |-> x, times |-> k]

\* MCP_read_measurement that calls initialize() without looking at its result
MCP_read_measurement_unchecked(s, e) ==
    LET record(s1, raw_adc, voltage, iout, concentration) ==
            [sensor |-> s1.kind,
             raw_adc |-> raw_adc,
             voltage |-> voltage,
             current_nA |-> iout,
             concentration |-> concentration,
             concentration_ppb |-> Times(concentration, 1000)]
        cached(s1, data) ==
            Ret([s1 EXCEPT !.last_valid_reading = data, !.fresh = data], data, FALSE)
        step4(s1, raw_adc, voltage, iout, conc) ==
            cached(s1, record(s1, raw_adc, voltage, iout,
                              IF RLt(conc, RInt(0)) THEN RInt(0) ELSE conc))
        step3(s1, raw_adc, voltage, iout) ==
            step4(s1, raw_adc, voltage, iout, MCP_calculate_concentration(s1, iout))
        step2(s1, raw_adc, voltage) ==
            step3(s1, raw_adc, voltage, MCP_calculate_iout(s1, voltage))
        step1(c) ==
            IF c.exc THEN Ret(c.s, None, TRUE)
            ELSE step2(c.s, c.ret, MCP_adc_to_voltage(c.s, c.ret))
        body(x) == step1(MCP_read_channel(x, e))
        after(i) == IF i.exc THEN Ret(i.s, None, TRUE) ELSE body(i.s)
    IN  IF ~s.initialized THEN after(MCP_initialize(s, e)) ELSE body(s)

MCP_read_measurement(s, e) ==
    LET record(s1, raw_adc, voltage, iout, concentration) ==
            [sensor |-> s1.kind,
             raw_adc |-> raw_adc,
             voltage |-> voltage,
             current_nA |-> iout,
             concentration |-> concentration,  \* ppm value
             concentration_ppb |-> Times(concentration, 1000)]
        cached(s1, data) ==
            Ret([s1 EXCEPT !.last_valid_reading = data, !.fresh = data], data, FALSE)
        \* if concentration < 0: concentration = 0
        step4(s1, raw_adc, voltage, iout, conc) ==
            cached(s1, record(s1, raw_adc, voltage, iout,
                              IF RLt(conc, RInt(0)) THEN RInt(0) ELSE conc))
        step3(s1, raw_adc, voltage, iout) ==
            step4(s1, raw_adc, voltage, iout, MCP_calculate_concentration(s1, iout))
        step2(s1, raw_adc, voltage) ==
            step3(s1, raw_adc, voltage, MCP_calculate_iout(s1, voltage))
        step1(c) ==
            IF c.exc THEN Ret(c.s, None, TRUE)
            ELSE step2(c.s, c.ret, MCP_adc_to_voltage(c.s, c.ret))
        body(x) == step1(MCP_read_channel(x, e))
        after(i) ==
            IF i.exc THEN Ret(i.s, None, TRUE)
            ELSE IF ~i.ret THEN Ret(i.s, i.s.last_valid_reading, FALSE)
            ELSE body(i.s)
    IN  IF ~s.initialized THEN after(MCP_initialize(s, e)) ELSE body(s)

\* data["chemical_formula"] = ..., data["common_name"] = ..., data["unit"] = "ppm"
Tagged(data, formula, name) ==
    [sensor |-> data.sensor, raw_adc |-> data.raw_adc, voltage |-> data.voltage,
     current_nA |-> data.current_nA, concentration |-> data.concentration,
     concentration_ppb |-> data.concentration_ppb,
     chemical_formula |-> formula, common_name |-> name, unit |-> "ppm"]

\* data is the very dict self.last_valid_reading refers to, so the keys the
\* subclass adds are added to the cached record as well
HCHO_read_measurement(s, e) ==
    LET tagged(x, d) ==
            Ret([x EXCEPT !.last_valid_reading = d,
                          !.fresh = IF @ = None THEN @ ELSE d],
                d, FALSE)
        formatted(r) ==
            IF ~r.exc /\ Truthy(r.ret)
            THEN tagged(r.s,
                        Tagged(IF RLt(r.ret.concentration, RInt(0))
                               THEN [r.ret EXCEPT !.concentration = RInt(0)]
                               ELSE r.ret,
                               "HCHO", "Formaldehyde"))
            ELSE r
    IN  formatted(MCP_read_measurement(s, e))

\* the literal of hcho_nh3_sensors.py line 153: N, H, U+00E2, U+201A, U+0192,
\* with the three characters past H written as Python writes them in ascii()
NH3_chemical_formula == "NH\\u00e2\\u201a\\u0192"

NH3_read_measurement(s, e) ==
    LET tagged(x, d) ==
            Ret([x EXCEPT !.last_valid_reading = d,
                          !.fresh = IF @ = None THEN @ ELSE d],
                d, FALSE)
        formatted(r) ==
            IF ~r.exc /\ Truthy(r.ret)
            THEN tagged(r.s, Tagged(r.ret, NH3_chemical_formula, "Ammonia"))
            ELSE r
    IN  formatted(MCP_read_measurement(s, e))

----------------------------------------------------------------------------
(* MICS6814Sensor.  A resistance is NoneV or Some(x).  e is what the       *)
(* breakout does: fail_at (the step of initialize that raises: "ctor",     *)
(* "led", "heater", "read"), cl_fail (the step of cleanup that raises:     *)
(* "led", "heater"), rd_fail (the step of the read that raises: "read",    *)
(* "led"), base (read_all() during initialize), readings (read_all()       *)
(* during the read).  The record's timestamp is left out.                  *)

NoneV == [some |-> FALSE, v |-> 0]

Some(x) == [some |-> TRUE, v |-> x]

NoBaseline == [oxidising |-> NoneV, reducing |-> NoneV, nh3 |-> NoneV]

LedOff == <<0, 0, 0>>
LedGreen == <<0, 255, 0>>
LedRed == <<255, 0, 0>>
LedYellow == <<255, 255, 0>>
LedPurple == <<255, 0, 255>>

MICS_cleanup(s, e) ==
    IF ~s.available THEN Ret(s, None, FALSE)
    ELSE
    LET body ==
            IF s.handle = "None"
            THEN [s |-> [s EXCEPT !.initialized = FALSE, !.connected = FALSE],
                  exc |-> FALSE]
            ELSE IF e.cl_fail = "led" THEN [s |-> s, exc |-> TRUE]
            ELSE IF e.cl_fail = "heater"
                 THEN [s |-> [s EXCEPT !.led = LedOff], exc |-> TRUE]
            ELSE [s |-> [s EXCEPT !.led = LedOff, !.heater = FALSE,
                                  !.initialized = FALSE, !.connected = FALSE],
                  exc |-> FALSE]
    IN  \* except Exception: log_error
        Ret(body.s, None, FALSE)

MICS_initialize(s, e) ==
    IF ~s.available THEN Ret(s, FALSE, FALSE)
    ELSE
    LET s0 == [s EXCEPT !.n_init = @ + 1]
        s1 == [s EXCEPT !.n_init = @ + 1, !.handle = "obj", !.dev_open = TRUE,
                        !.orphan_open = @ \/ s.dev_open]
        s2 == [s EXCEPT !.n_init = @ + 1, !.handle = "obj", !.dev_open = TRUE,
                        !.orphan_open = @ \/ s.dev_open,
                        !.led = LedGreen]
        s3 == [s EXCEPT !.n_init = @ + 1, !.handle = "obj", !.dev_open = TRUE,
                        !.orphan_open = @ \/ s.dev_open,
                        !.led = LedGreen, !.heater = TRUE, !.heated = TRUE]
        s4 == [s EXCEPT !.n_init = @ + 1, !.handle = "obj", !.dev_open = TRUE,
                        !.orphan_open = @ \/ s.dev_open,
                        !.led = LedGreen, !.heater = TRUE, !.heated = TRUE,
                        !.n_base = @ + 1,
                        !.baseline = [oxidising |-> e.base.oxidising,
                                      reducing |-> e.base.reducing,
                                      nh3 |-> e.base.nh3]]
        \* the f"{...:.2f}" of the baseline log raises TypeError on None
        fmt_raises == \E c \in {"oxidising", "reducing", "nh3"} : ~e.base[c].some
        \* except Exception: self.cleanup(); return False
        failed(c) == Ret(c.s, FALSE, c.exc)
    IN  IF e.fail_at = "ctor" THEN failed(MICS_cleanup(s0, e))
        ELSE IF e.fail_at = "led" THEN failed(MICS_cleanup(s1, e))
        ELSE IF e.fail_at = "heater" THEN failed(MICS_cleanup(s2, e))
        ELSE IF e.fail_at = "read"
             THEN \* read_all() was issued and raised
                  failed(MICS_cleanup([s3 EXCEPT !.n_base = @ + 1], e))
        ELSE IF fmt_raises THEN failed(MICS_cleanup(s4, e))
        ELSE Ret([s4 EXCEPT !.initialized = TRUE, !.connected = TRUE,
                            !.init_ok = TRUE],
                 TRUE, FALSE)

\* ret is the value returned; exc says that the call raised instead
\* (AttributeError on self.baseline, which __init__ never assigned)
MICS_is_valid_reading(s, readings) ==
    IF \/ ~readings.oxidising.some \/ ~readings.reducing.some \/ ~readings.nh3.some
       \/ readings.oxidising.v <= 0 \/ readings.reducing.v <= 0 \/ readings.nh3.v <= 0
    THEN [ret |-> FALSE, exc |-> FALSE]
    ELSE IF ~s.attrs_set THEN [ret |-> FALSE, exc |-> TRUE]
    ELSE IF \/ ~s.baseline.oxidising.some
            \/ ~s.baseline.reducing.some
            \/ ~s.baseline.nh3.some
    THEN [ret |-> FALSE, exc |-> FALSE]
    ELSE [ret |-> TRUE, exc |-> FALSE]

\* calculate_ppm with the oxidising ratio not inverted
MICS_calculate_ppm_same_ratio(current, baseline_value, gas_type) ==
    IF ~baseline_value.some \/ current <= 0 \/ baseline_value.v <= 0 THEN RInt(0)
    ELSE IF gas_type = "oxidising"
    THEN RMax(RInt(0), RMul(R(1, 10), RSub(R(current, baseline_value.v), RInt(1))))
    ELSE IF gas_type = "reducing"
    THEN RMax(RInt(0), RMul(RInt(4), RSub(R(current, baseline_value.v), RInt(1))))
    ELSE IF gas_type = "nh3"
    THEN RMax(RInt(0), RMul(RInt(5), RSub(R(current, baseline_value.v), RInt(1))))
    ELSE RInt(0)

\* current is a number here; baseline_value is NoneV or Some(x)
MICS_calculate_ppm(current, baseline_value, gas_type) ==
    IF ~baseline_value.some \/ current <= 0 \/ baseline_value.v <= 0 THEN RInt(0)
    ELSE IF gas_type = "oxidising"
    THEN RMax(RInt(0), RMul(R(1, 10), RSub(R(baseline_value.v, current), RInt(1))))
    ELSE IF gas_type = "reducing"
    THEN RMax(RInt(0), RMul(RInt(4), RSub(R(current, baseline_value.v), RInt(1))))
    ELSE IF gas_type = "nh3"
    THEN RMax(RInt(0), RMul(RInt(5), RSub(R(current, baseline_value.v), RInt(1))))
    ELSE RInt(0)

\* update_led with the CO test placed before the NO2 test
MICS_led_colour_co_first(no2_ppm, co_ppm, nh3_ppm) ==
    IF RLt(RInt(5), co_ppm) THEN LedYellow
    ELSE IF RLt(R(1, 10), no2_ppm) THEN LedRed
    ELSE IF RLt(RInt(1), nh3_ppm) THEN LedPurple
    ELSE LedGreen

\* the colour update_led asks for
MICS_led_colour(no2_ppm, co_ppm, nh3_ppm) ==
    IF RLt(R(1, 10), no2_ppm) THEN LedRed
    ELSE IF RLt(RInt(5), co_ppm) THEN LedYellow
    ELSE IF RLt(RInt(1), nh3_ppm) THEN LedPurple
    ELSE LedGreen

\* on an instance whose __init__ returned at the library check the test of
\* self.initialized raises AttributeError
MICS_update_led(s, no2_ppm, co_ppm, nh3_ppm, e) ==
    IF ~s.attrs_set THEN [s |-> s, exc |-> TRUE]
    ELSE IF ~s.initialized \/ s.handle = "None" THEN [s |-> s, exc |-> FALSE]
    ELSE IF e.rd_fail = "led" THEN [s |-> s, exc |-> TRUE]
    ELSE [s |-> [s EXCEPT !.led = MICS_led_colour(no2_ppm, co_ppm, nh3_ppm)],
          exc |-> FALSE]

MICS_read_measurement(s, e) ==
    IF ~s.available THEN Ret(s, None, FALSE)
    ELSE
    LET \* except Exception: self.initialized = False; return last_valid_reading
        caught(x) == Ret([x EXCEPT !.initialized = FALSE, !.xfer_exc = TRUE],
                         x.last_valid_reading, FALSE)
        record(s1, readings, no2_ppm, co_ppm, nh3_ppm) ==
            [sensor |-> s1.kind,
             raw |-> [oxidising |-> readings.oxidising.v,
                      reducing |-> readings.reducing.v,
                      nh3 |-> readings.nh3.v],
             ppm |-> [no2 |-> no2_ppm, co |-> co_ppm, nh3 |-> nh3_ppm]]
        cached(s1, data) ==
            Ret([s1 EXCEPT !.last_valid_reading = data, !.fresh = data], data, FALSE)
        lit(u, data) == IF u.exc THEN caught(u.s) ELSE cached(u.s, data)
        computed(s1, readings, no2_ppm, co_ppm, nh3_ppm) ==
            lit(MICS_update_led(s1, no2_ppm, co_ppm, nh3_ppm, e),
                record(s1, readings, no2_ppm, co_ppm, nh3_ppm))
        got(s1, readings) ==
            IF MICS_is_valid_reading(s1, readings).exc THEN caught(s1)
            ELSE IF ~MICS_is_valid_reading(s1, readings).ret
            THEN Ret(s1, s1.last_valid_reading, FALSE)
            ELSE computed(s1, readings,
                    MICS_calculate_ppm(readings.oxidising.v, s1.baseline.oxidising,
                                       "oxidising"),
                    MICS_calculate_ppm(readings.reducing.v, s1.baseline.reducing,
                                       "reducing"),
                    MICS_calculate_ppm(readings.nh3.v, s1.baseline.nh3, "nh3"))
        body(x) ==
            IF e.rd_fail = "read" \/ ~x.dev_open
            THEN caught([x EXCEPT !.n_xfer = @ + 1])
            ELSE got([x EXCEPT !.n_xfer = @ + 1], e.readings)
        after(i) ==
            IF i.exc THEN Ret(i.s, None, TRUE)
            ELSE IF ~i.ret THEN Ret(i.s, i.s.last_valid_reading, FALSE)
            ELSE body(i.s)
    IN  IF ~s.initialized THEN after(MICS_initialize(s, e)) ELSE body(s)

----------------------------------------------------------------------------
(* SEN66Sensor.  e is what the I2C side does: fail_at (the step of         *)
(* initialize that raises: "ctor" for LinuxI2cTransceiver(), "reset",      *)
(* "start"), close_fails (transceiver.__exit__ raises), rd_fails           *)
(* (read_measured_values raises), values (the vector it returns).          *)

\* SEN66_cleanup without its try/except
SEN66_cleanup_no_except(s, e) ==
    IF ~s.available THEN Ret(s, None, FALSE)
    ELSE IF s.handle /= "None" /\ e.close_fails THEN Ret(s, None, TRUE)
    ELSE Ret([s EXCEPT !.initialized = FALSE,
                       !.connected = FALSE,
                       !.dev_open = IF s.handle /= "None" THEN FALSE ELSE @],
             None, FALSE)

SEN66_cleanup(s, e) ==
    IF ~s.available THEN Ret(s, None, FALSE)
    ELSE
    LET body ==
            IF s.handle /= "None" /\ e.close_fails
            THEN [s |-> s, exc |-> TRUE]
            ELSE [s |-> [s EXCEPT !.initialized = FALSE,
                                  !.connected = FALSE,
                                  !.dev_open = IF s.handle /= "None" THEN FALSE ELSE @],
                  exc |-> FALSE]
    IN  \* except Exception: log_error
        Ret(body.s, None, FALSE)

SEN66_initialize(s, e) ==
    IF ~s.available THEN Ret(s, FALSE, FALSE)
    ELSE
    LET s0 == [s EXCEPT !.n_init = @ + 1]
        s1 == [s EXCEPT !.n_init = @ + 1, !.handle = "obj", !.dev_open = TRUE,
                        !.orphan_open = @ \/ s.dev_open]
        \* except Exception: self.cleanup(); return False
        failed(c) == Ret(c.s, FALSE, c.exc)
    IN  IF e.fail_at = "ctor" THEN failed(SEN66_cleanup(s0, e))
        ELSE IF e.fail_at \in {"reset", "start"} THEN failed(SEN66_cleanup(s1, e))
        ELSE Ret([s1 EXCEPT !.initialized = TRUE, !.connected = TRUE,
                            !.init_ok = TRUE],
                 TRUE, FALSE)

SEN66_is_valid_reading(s, data) ==
    IF ~Truthy(data) THEN FALSE
    ELSE IF \/ data.pm1_0 < 0 \/ data.pm2_5 < 0 \/ data.pm4_0 < 0 \/ data.pm10 < 0
            \/ data.VOC_Index < 0 \/ data.NOx_Index < 0 \/ data.CO2 < 0
    THEN FALSE
    ELSE IF data.temperature < -40 \/ data.temperature > 85 THEN FALSE
    ELSE IF data.humidity < 0 \/ data.humidity > 100 THEN FALSE
    ELSE TRUE

\* the record with temperature and humidity taken from each other's index
SEN66_record_swapped(s, values) ==
    [sensor |-> s.kind,
     temperature |-> values[5],
     humidity |-> values[6],
     pm1_0 |-> values[1],
     pm2_5 |-> values[2],
     pm4_0 |-> values[3],
     pm10 |-> values[4],
     VOC_Index |-> values[7],
     NOx_Index |-> values[8],
     CO2 |-> values[9]]

\* values[k].value with k counted from 0; "pm1.0" is written pm1_0
SEN66_record(s, values) ==
    [sensor |-> s.kind,
     temperature |-> values[6],
     humidity |-> values[5],
     pm1_0 |-> values[1],
     pm2_5 |-> values[2],
     pm4_0 |-> values[3],
     pm10 |-> values[4],
     VOC_Index |-> values[7],
     NOx_Index |-> values[8],
     CO2 |-> values[9]]

SEN66_read_measurement(s, e) ==
    IF ~s.available THEN Ret(s, None, FALSE)
    ELSE
    LET \* except Exception: self.initialized = False; return last_valid_reading
        caught(x, transport) ==
            Ret([x EXCEPT !.initialized = FALSE, !.xfer_exc = transport],
                x.last_valid_reading, FALSE)
        built(s1, data) ==
            IF ~SEN66_is_valid_reading(s1, data)
            THEN Ret([s1 EXCEPT !.fresh = data], s1.last_valid_reading, FALSE)
            ELSE Ret([s1 EXCEPT !.last_valid_reading = data, !.fresh = data], data, FALSE)
        body(x) ==
            IF e.rd_fails \/ ~x.dev_open
            THEN caught([x EXCEPT !.n_xfer = @ + 1], TRUE)
            ELSE IF Len(e.values) < 9
            THEN caught([x EXCEPT !.n_xfer = @ + 1], FALSE)     \* IndexError
            ELSE built([x EXCEPT !.n_xfer = @ + 1, !.sen_values = e.values],
                       SEN66_record(x, e.values))
        after(i) ==
            IF i.exc THEN Ret(i.s, None, TRUE)
            ELSE IF ~i.ret THEN Ret(i.s, i.s.last_valid_reading, FALSE)
            ELSE body(i.s)
    IN  IF ~s.initialized THEN after(SEN66_initialize(s, e)) ELSE body(s)

----------------------------------------------------------------------------
(* What the devices can answer.                                            *)

\* "serial, ppb, temp, rh, adc_g, adc_t, adc_h\r\n" and longer or shorter lines
Join7(ppb, temp, rh, g, t, h) ==
    <<IntTok(1013), Comma, Sp, ppb, Comma, Sp, temp, Comma, Sp, rh, Comma, Sp, g,
      Comma, Sp, t, Comma, Sp, h, Sp, Sp>>

Lines ==
    { Join7(IntTok(1200), IntTok(2500), IntTok(5000), IntTok(7), IntTok(8), IntTok(9)),
      Join7(IntTok(0), IntTok(-4000), IntTok(0), IntTok(7), IntTok(8), IntTok(9)),
      Join7(IntTok(5), IntTok(8500), IntTok(10000), IntTok(7), IntTok(8), IntTok(9)),
      Join7(IntTok(-5), IntTok(-500), IntTok(-100), IntTok(-1), IntTok(-2), IntTok(-3)),
      Join7(IntTok(1200), IntTok(-500), IntTok(5000), IntTok(7), IntTok(8), IntTok(9)),
      Join7(IntTok(1200), IntTok(9000), IntTok(5000), IntTok(7), IntTok(8), IntTok(9)),
      Join7(IntTok(1200), IntTok(-4100), IntTok(5000), IntTok(7), IntTok(8), IntTok(9)),
      Join7(IntTok(1200), IntTok(2500), IntTok(10100), IntTok(7), IntTok(8), IntTok(9)),
      Join7(IntTok(1200), DecTok(25005), IntTok(5000), IntTok(7), IntTok(8), IntTok(9)),
      Join7(DecTok(12005), IntTok(2500), IntTok(5000), IntTok(7), IntTok(8), IntTok(9)),
      Join7(IntTok(1200), Txt, IntTok(5000), IntTok(7), IntTok(8), IntTok(9)),
      Join7(IntTok(1200), IntTok(2500), NanTok, IntTok(7), IntTok(8), IntTok(9)),
      Join7(IntTok(1200), NanTok, IntTok(5000), IntTok(7), IntTok(8), IntTok(9)),
      Join7(IntTok(1200), InfTok(1), InfTok(-1), IntTok(7), IntTok(8), IntTok(9)),
      Join7(NanTok, IntTok(2500), IntTok(5000), IntTok(7), IntTok(8), IntTok(9)),
      Join7(IntTok(1200), IntTok(2500), IntTok(5000), IntTok(7), IntTok(8), IntTok(9))
          \o <<Comma, IntTok(0), Comma, Txt>>,
      <<IntTok(1013), Comma, IntTok(1200), Comma, IntTok(2500), Comma, IntTok(5000),
        Comma, IntTok(7), Comma, IntTok(8)>>,
      Join7(IntTok(1200), IntTok(2500), IntTok(5000), Txt, IntTok(8), IntTok(9)),
      Join7(IntTok(1200), IntTok(2500), IntTok(5000), IntTok(7), IntTok(8), DecTok(95)),
      <<IntTok(1013), Comma, IntTok(12), Sp, IntTok(34), Comma, IntTok(2500), Comma,
        IntTok(5000), Comma, Comma, IntTok(8), Comma, IntTok(9)>>,
      <<Txt>>,
      <<Sp, Sp>>,
      <<>> }

DGS2_Env ==
    [open_fails : BOOLEAN, close_fails : BOOLEAN, io_fails : BOOLEAN, line : Lines]

\* initialize only looks at whether the test answer is empty
DGS2_InitEnv ==
    [open_fails : BOOLEAN, close_fails : BOOLEAN, io_fails : BOOLEAN,
     line : {<<>>, <<IntTok(1013), Sp>>}]

DGS2_CleanupEnv ==
    [open_fails : {FALSE}, close_fails : BOOLEAN, io_fails : {FALSE}, line : {<<>>}]

\* xfer2 answers: raw 0, 2000, 3998, 3999, 4040, 4041, 4095, and a short answer
Resps ==
    { <<0, 0, 0>>, <<0, 7, 208>>, <<255, 255, 158>>, <<0, 15, 159>>, <<0, 15, 200>>,
      <<0, 31, 201>>, <<0, 15, 255>>, <<0, 15>> }

MCP_Env ==
    [fail_at : {"none", "open", "speed"}, close_fails : BOOLEAN,
     xfer_fails : BOOLEAN, resp : Resps]

\* bytes of an xfer2 answer
Bytes == {0, 1, 15, 16, 128, 240, 255}

ByteTriples == {<<b1, b2, b3>> : b1 \in {0, 255}, b2 \in Bytes, b3 \in Bytes}

MCP_RawEnv ==
    [fail_at : {"none", "open", "speed"}, close_fails : BOOLEAN, xfer_fails : BOOLEAN,
     resp : ByteTriples \cup {<<0, 15>>}]

\* channel arguments a caller may give
ChannelArgs == -1 .. 8

MCP_InitEnv ==
    [fail_at : {"none", "open", "speed"}, close_fails : BOOLEAN,
     xfer_fails : {FALSE}, resp : {<<0, 0, 0>>}]

MCP_CleanupEnv ==
    [fail_at : {"none"}, close_fails : BOOLEAN, xfer_fails : {FALSE},
     resp : {<<0, 0, 0>>}]

Readings(ox, red, nh) == [oxidising |-> ox, reducing |-> red, nh3 |-> nh]

Baselines ==
    { Readings(Some(100), Some(200), Some(150)),
      Readings(Some(100), NoneV, Some(150)),
      Readings(Some(100), Some(0), Some(-5)) }

ReadingSet ==
    { Readings(Some(90), Some(220), Some(150)),
      Readings(Some(40), Some(500), Some(200)),
      Readings(Some(100), Some(500), Some(200)),
      Readings(Some(100), Some(200), Some(200)),
      Readings(Some(100), Some(200), Some(150)),
      Readings(Some(50), Some(450), Some(180)),
      Readings(NoneV, Some(200), Some(150)),
      Readings(Some(100), Some(0), Some(150)),
      Readings(Some(100), Some(200), Some(-1)) }

MICS_Env ==
    [fail_at : {"none", "ctor", "led", "heater", "read"},
     cl_fail : {"none", "led", "heater"},
     rd_fail : {"none", "read", "led"},
     base : Baselines, readings : ReadingSet]

\* the answers a read_measurement call can consult: those of initialize only
\* when it starts not initialized, those of the read only when initialize
\* succeeds; the answers it never asks for are held at one value
MICS_ReadEnv(init) ==
    LET full == {b \in Baselines : \A c \in {"oxidising", "reducing", "nh3"} : b[c].some}
        nominal == Readings(Some(100), Some(200), Some(150))
    IN  IF init
        THEN [fail_at : {"none"}, cl_fail : {"none"}, rd_fail : {"none", "read", "led"},
              base : {nominal}, readings : ReadingSet]
        ELSE [fail_at : {"none"}, cl_fail : {"none"}, rd_fail : {"none", "read", "led"},
              base : full, readings : ReadingSet]
             \cup [fail_at : {"ctor", "led", "heater", "read"},
                   cl_fail : {"none", "led", "heater"}, rd_fail : {"none"},
                   base : {nominal}, readings : {nominal}]
             \cup [fail_at : {"none"}, cl_fail : {"none", "led", "heater"},
                   rd_fail : {"none"}, base : Baselines \ full, readings : {nominal}]

MICS_InitEnv ==
    [fail_at : {"none", "ctor", "led", "heater", "read"},
     cl_fail : {"none", "led", "heater"},
     rd_fail : {"none"},
     base : Baselines, readings : {Readings(Some(100), Some(200), Some(150))}]

MICS_CleanupEnv ==
    [fail_at : {"none"}, cl_fail : {"none", "led", "heater"}, rd_fail : {"none"},
     base : {Readings(Some(100), Some(200), Some(150))},
     readings : {Readings(Some(100), Some(200), Some(150))}]

\* set_led() during a direct update_led call
MICS_LedEnv ==
    [fail_at : {"none"}, cl_fail : {"none"}, rd_fail : {"none", "led"},
     base : {Readings(Some(100), Some(200), Some(150))},
     readings : {Readings(Some(100), Some(200), Some(150))}]

\* arguments of update_led: each threshold alone, at it, above it, and together
PpmArgs ==
    { [no2 |-> a, co |-> b, nh3 |-> c] :
        a \in {R(1, 10), R(1, 5)}, b \in {RInt(5), RInt(6)}, c \in {RInt(1), RInt(2)} }

\* arguments of is_valid_reading: accepted with a full baseline, a channel
\* missing, a channel at zero
ReadingArgs ==
    { Readings(Some(90), Some(220), Some(150)),
      Readings(NoneV, Some(200), Some(150)),
      Readings(Some(100), Some(0), Some(150)) }

\* read_measured_values answers: pm1.0, pm2.5, pm4.0, pm10, RH, T, VOC, NOx, CO2
ValueVectors ==
    { <<1, 2, 3, 4, 55, 21, 100, 7, 420>>,
      <<0, 0, 0, 0, 0, -40, 0, 0, 0>>,
      <<1, 2, 3, 4, 100, 85, 100, 1, 420>>,
      <<1, -2, 3, 4, 55, 21, 100, 1, 420>>,
      <<1, 2, 3, 4, 55, 21, 100, 1, -1>>,
      <<1, 2, 3, 4, 55, 86, 100, 1, 420>>,
      <<1, 2, 3, 4, 101, 21, 100, 1, 420>>,
      <<1, 2, 3, 4, 55, 21>> }

SEN66_Env ==
    [fail_at : {"none", "ctor", "reset", "start"}, close_fails : BOOLEAN,
     rd_fails : BOOLEAN, values : ValueVectors]

SEN66_InitEnv ==
    [fail_at : {"none", "ctor", "reset", "start"}, close_fails : BOOLEAN,
     rd_fails : {FALSE}, values : {<<>>}]

SEN66_CleanupEnv ==
    [fail_at : {"none"}, close_fails : BOOLEAN, rd_fails : {FALSE}, values : {<<>>}]

\* records given to is_valid_reading
Temperatures == {R(-4001, 100), RInt(-40), RInt(25), RInt(85), R(8501, 100), NaN, Inf(1)}

Humidities == {R(-1, 100), RInt(0), RInt(50), RInt(100), R(10001, 100), NaN, Inf(-1)}

DGS2_Records ==
    { [sensor |-> "DGS2", gas_ppb |-> b, temperature |-> tt, relative_humidity |-> h,
       adc_g |-> 7, adc_t |-> 8, adc_h |-> 9, gas_ppm |-> m] :
        b \in {-1, 0, 1200}, m \in {R(-1, 1000), RInt(0), R(6, 5)},
        tt \in Temperatures, h \in Humidities }

\* the record read_measurement builds for a concentration c
MCP_Records(k) ==
    { [sensor |-> k, raw_adc |-> 2000, voltage |-> R(2188, 1365),
       current_nA |-> RMul(c, RInt(35)), concentration |-> c,
       concentration_ppb |-> Times(c, 1000)] :
        c \in {R(-1, 100), RInt(0), RInt(50), RInt(100), R(10001, 100)} }

\* one of the seven particulate / index fields set to v, with temperature tt
\* and humidity h
SEN66_Vectors ==
    { [j \in 1 .. 9 |-> IF j = i THEN v ELSE IF j = 5 THEN h ELSE IF j = 6 THEN tt
                         ELSE 10 + j] :
        i \in {1, 2, 3, 4, 7, 8, 9}, v \in {-1, 0},
        tt \in {-41, -40, 21, 85, 86}, h \in {-1, 0, 55, 100, 101} }

\* arguments of calculate_ppm
Currents == {-5, 0, 40, 90, 100, 150, 220, 500}

BaselineValues == {NoneV, Some(-5), Some(0), Some(100), Some(150), Some(200)}

GasTypes == {"oxidising", "reducing", "nh3", "co"}

----------------------------------------------------------------------------
(* The instances.                                                          *)

Kinds == {"DGS2", "AnalogSensor", "HCHO", "NH3", "MICS6814", "SEN66"}

MCPKinds == {"AnalogSensor", "HCHO", "NH3"}

\* BaseSensor.__init__: no reading cached, not connected
BaseSensor_init == [last_valid_reading |-> None, connected |-> FALSE]

\* channel and sensitivity given to the constructor: the defaults of HCHOSensor
\* and NH3Sensor, the caller's values for MCP3208Sensor
channel_of(k) == IF k = "HCHO" THEN {0} ELSE IF k = "NH3" THEN {1}
                 ELSE IF k = "AnalogSensor" THEN {-1, 5, 8} ELSE {0}

sensitivity_of(k) == IF k = "HCHO" THEN {RInt(35)} ELSE IF k = "NH3" THEN {RInt(20)}
                     ELSE IF k = "AnalogSensor" THEN {RInt(35), RInt(0), RInt(-20), NaN}
                     ELSE {RInt(0)}

\* the instance after __init__(ch, sens); when __init__ raised there is no
\* instance and channel, sensitivity only record the arguments
Constructed(ch, sens) ==
    /\ channel = ch
    /\ sensitivity = sens
    /\ constructed = (kind \in MCPKinds => ~MCP_init(ch, sens).exc)
    /\ initialized = FALSE
    /\ connected = BaseSensor_init.connected
    /\ handle = "None"
    /\ last_valid_reading = BaseSensor_init.last_valid_reading
    /\ baseline = NoBaseline
    /\ dev_open = FALSE
    /\ led = LedOff
    /\ heater = FALSE
    /\ op = "init"
    /\ ret_ok = FALSE
    /\ ret_data = None
    /\ raised = FALSE
    /\ n_init = 0
    /\ n_xfer = 0
    /\ n_base = 0
    /\ xfer_exc = FALSE
    /\ fresh = None
    /\ pre_initialized = FALSE
    /\ pre_cache = None
    /\ ever_connected = FALSE
    /\ heated = FALSE
    /\ pre_led = LedOff
    /\ adc = NoXfer
    /\ parse_in = <<>>
    /\ parse_out = None
    /\ orphan_open = FALSE
    /\ test_sent = FALSE
    /\ sen_values = <<>>
    /\ call_arg = None
    /\ call_ret = None
    /\ attrs_set = available

Init ==
    /\ kind \in Kinds
    /\ available \in (IF kind \in {"MICS6814", "SEN66"} THEN BOOLEAN ELSE {TRUE})
    /\ enable_led \in (IF kind = "MICS6814" THEN BOOLEAN ELSE {TRUE})
    /\ \E ch \in channel_of(kind), sens \in sensitivity_of(kind) : Constructed(ch, sens)

\* a call returns: the instance takes the fields the method left; a, cr are
\* the argument and the value of a direct call of a helper method
Returned(name, r, ok, data, a, cr) ==
    /\ initialized' = r.s.initialized
    /\ connected' = r.s.connected
    /\ handle' = r.s.handle
    /\ last_valid_reading' = r.s.last_valid_reading
    /\ baseline' = r.s.baseline
    /\ dev_open' = r.s.dev_open
    /\ led' = r.s.led
    /\ heater' = r.s.heater
    /\ op' = name
    /\ ret_ok' = ok
    /\ ret_data' = data
    /\ raised' = r.exc
    /\ n_init' = r.s.n_init
    /\ n_xfer' = r.s.n_xfer
    /\ n_base' = r.s.n_base
    /\ xfer_exc' = r.s.xfer_exc
    /\ fresh' = r.s.fresh
    /\ pre_initialized' = initialized
    /\ pre_cache' = last_valid_reading
    /\ ever_connected' = (ever_connected \/ r.s.init_ok)
    /\ heated' = r.s.heated
    /\ pre_led' = led
    /\ adc' = r.s.adc
    /\ parse_in' = r.s.parse_in
    /\ parse_out' = r.s.parse_out
    /\ orphan_open' = r.s.orphan_open
    /\ test_sent' = r.s.test_sent
    /\ sen_values' = r.s.sen_values
    /\ call_arg' = a
    /\ call_ret' = cr
    /\ UNCHANGED <<kind, available, channel, sensitivity, constructed, enable_led,
                   attrs_set>>

\* connect, read_measurement, cleanup or read_channel returns
Commit(name, r, ok, data) == Returned(name, r, ok, data, None, None)

Connected(r) == Commit("connect", r, r.ret, None)

Read(r) == Commit("read", r, FALSE, r.ret)

Cleaned(r) == Commit("cleanup", r, FALSE, None)

\* read_channel returns: adc.result is the count it returned
ReadRaw(r) == Commit("read_channel", [r EXCEPT !.s.adc.result = r.ret], FALSE, None)

DGS2_connect ==
    /\ kind = "DGS2"
    /\ \E e \in DGS2_InitEnv :
           Connected(DGS2_initialize(Self, e))

DGS2_read ==
    /\ kind = "DGS2"
    /\ \E e \in DGS2_Env :
           Read(DGS2_read_measurement(Self, e))

DGS2_close ==
    /\ kind = "DGS2"
    /\ \E e \in DGS2_CleanupEnv :
           Cleaned(DGS2_cleanup(Self, e))

MCP_connect ==
    /\ kind \in MCPKinds
    /\ constructed
    /\ \E e \in MCP_InitEnv :
           Connected(MCP_initialize(Self, e))

MCP_read ==
    /\ kind \in MCPKinds
    /\ constructed
    /\ \E e \in MCP_Env :
           Read(IF kind = "HCHO" THEN HCHO_read_measurement(Self, e)
                ELSE IF kind = "NH3" THEN NH3_read_measurement(Self, e)
                ELSE MCP_read_measurement(Self, e))

MCP_close ==
    /\ kind \in MCPKinds
    /\ constructed
    /\ \E e \in MCP_CleanupEnv :
           Cleaned(MCP_cleanup(Self, e))

MICS_connect ==
    /\ kind = "MICS6814"
    /\ \E e \in MICS_InitEnv :
           Connected(MICS_initialize(Self, e))

MICS_read ==
    /\ kind = "MICS6814"
    /\ \E e \in MICS_ReadEnv(initialized) :
           Read(MICS_read_measurement(Self, e))

MICS_close ==
    /\ kind = "MICS6814"
    /\ \E e \in MICS_CleanupEnv :
           Cleaned(MICS_cleanup(Self, e))

SEN66_connect ==
    /\ kind = "SEN66"
    /\ \E e \in SEN66_InitEnv :
           Connected(SEN66_initialize(Self, e))

SEN66_read ==
    /\ kind = "SEN66"
    /\ \E e \in SEN66_Env :
           Read(SEN66_read_measurement(Self, e))

SEN66_close ==
    /\ kind = "SEN66"
    /\ \E e \in SEN66_CleanupEnv :
           Cleaned(SEN66_cleanup(Self, e))

\* read_channel() called on its own
MCP_read_raw ==
    /\ kind \in MCPKinds
    /\ constructed
    /\ \E e \in MCP_RawEnv :
           ReadRaw(MCP_read_channel(Self, e))

\* a method that touches neither the instance nor the device, called on its
\* own: r is what it returned, exc says that it raised instead
Called(name, a, r, exc) == Returned(name, Ret(Self, None, exc), FALSE, None, a, r)

DGS2_validate ==
    /\ kind = "DGS2"
    /\ \E data \in DGS2_Records \cup {None} :
           Called("is_valid_reading", data, DGS2_is_valid_reading(Self, data), FALSE)

MCP_validate ==
    /\ kind \in MCPKinds
    /\ constructed
    /\ \E data \in MCP_Records(kind) \cup {None} :
           Called("is_valid_reading", data,
                  IF kind = "HCHO" THEN HCHO_is_valid_reading(Self, data)
                  ELSE IF kind = "NH3" THEN NH3_is_valid_reading(Self, data)
                  ELSE MCP_is_valid_reading(Self, data),
                  FALSE)

SEN66_validate ==
    /\ kind = "SEN66"
    /\ \E data \in {SEN66_record(Self, v) : v \in SEN66_Vectors} \cup {None} :
           Called("is_valid_reading", data, SEN66_is_valid_reading(Self, data), FALSE)

MICS_ppm ==
    /\ kind = "MICS6814"
    /\ \E current \in Currents, b \in BaselineValues, g \in GasTypes :
           Called("calculate_ppm",
                  [current |-> current, baseline_value |-> b, gas_type |-> g],
                  MICS_calculate_ppm(current, b, g), FALSE)

\* update_led() called on its own: an exception of set_led reaches the caller
MICS_led ==
    /\ kind = "MICS6814"
    /\ \E p \in PpmArgs, e \in MICS_LedEnv :
           LET u == MICS_update_led(Self, p.no2, p.co, p.nh3, e)
           IN  Returned("update_led", Ret(u.s, None, u.exc), FALSE, None, p, None)

\* is_valid_reading() called on its own
MICS_validate ==
    /\ kind = "MICS6814"
    /\ \E readings \in ReadingArgs :
           LET v == MICS_is_valid_reading(Self, readings)
           IN  Called("is_valid_reading", readings, v.ret, v.exc)

Next ==
    \/ DGS2_connect \/ DGS2_read \/ DGS2_close
    \/ MCP_connect \/ MCP_read \/ MCP_close
    \/ MICS_connect \/ MICS_read \/ MICS_close \/ MICS_led \/ MICS_validate
    \/ SEN66_connect \/ SEN66_read \/ SEN66_close

Spec == Init /\ [][Next]_vars

\* The methods that compute a value from their arguments alone, called with
\* sampled arguments on a newly constructed instance.
NextPure ==
    \/ DGS2_validate \/ MCP_validate \/ SEN66_validate \/ MICS_ppm

SpecPure == Init /\ [][NextPure]_vars

\* One MCP3208Sensor, constructed on any channel argument, whose read_channel
\* is called with every sampled xfer2 answer.
InitADC ==
    /\ kind = "AnalogSensor"
    /\ available = TRUE
    /\ enable_led = TRUE
    /\ \E ch \in ChannelArgs : Constructed(ch, RInt(35))

NextADC == MCP_connect \/ MCP_read_raw \/ MCP_close

SpecADC == InitADC /\ [][NextADC]_vars

----------------------------------------------------------------------------
(* Properties.                                                             *)

\* the driver's own is_valid_reading, applied to a cached or returned record
Validate(s, data) ==
    IF ~Truthy(data) THEN FALSE
    ELSE IF s.kind = "DGS2" THEN DGS2_is_valid_reading(s, data)
    ELSE IF s.kind = "HCHO" THEN HCHO_is_valid_reading(s, data)
    ELSE IF s.kind = "NH3" THEN NH3_is_valid_reading(s, data)
    ELSE IF s.kind = "AnalogSensor" THEN MCP_is_valid_reading(s, data)
    ELSE IF s.kind = "MICS6814"
    THEN MICS_is_valid_reading(s, Readings(Some(data.raw.oxidising),
                                           Some(data.raw.reducing),
                                           Some(data.raw.nh3))).ret
    ELSE SEN66_is_valid_reading(s, data)

\* C1: the last-valid cache is empty or holds a record that the driver's
\* own is_valid_reading accepts.
C1_CacheHoldsValidRecord ==
    last_valid_reading = None \/ Validate(Self, last_valid_reading)

\* C2: an HCHO read whose conversion is rejected by is_valid_reading (above
\* the 100 ppm ceiling) returns the previous last-known-good record (or
\* None), and leaves the cache as it was.
C2_OutOfRangeReturnsPrevious ==
    (kind = "HCHO" /\ op = "read" /\ fresh /= None
        /\ ~HCHO_is_valid_reading(Self, fresh))
    => (ret_data = pre_cache /\ last_valid_reading = pre_cache)

\* C3: when a record is cached and the bus transaction of a read fails with a
\* transport error, the read returns the cached record.
C3_TransportErrorReturnsCache ==
    (op = "read" /\ pre_cache /= None /\ xfer_exc) => ret_data = pre_cache

\* C4: a read issued while no connect has ever succeeded returns None and
\* raises nothing.
C4_ReadBeforeConnectIsNone ==
    (op = "read" /\ ~ever_connected) => (ret_data = None /\ ~raised)

C4_Witness ==
    op = "read" /\ ~ever_connected /\ n_init = 1 /\ ~initialized

\* C5: read_measurement never lets an exception reach the caller.
C5_ReadNeverRaises ==
    op = "read" => ~raised

C5_Witness ==
    op = "read" /\ xfer_exc /\ ~raised

\* C6: a transport exception during a read taken in the Ready state leaves
\* the driver not Ready (initialized = False).
C6_TransportErrorFaults ==
    (op = "read" /\ pre_initialized /\ xfer_exc) => ~initialized

\* C7: a DGS2 read that gets an empty or malformed line while a record is
\* cached returns the cached record and leaves the cache unchanged.
C7_BadLineReturnsCache ==
    (kind = "DGS2" /\ op = "read" /\ n_xfer = 1 /\ fresh = None /\ pre_cache /= None)
    => (ret_data = pre_cache /\ last_valid_reading = pre_cache)

\* C8 (as stated): for every driver one read_measurement call makes at most
\* one initialize() attempt and at most one read transaction on the bus, the
\* ones initialize() issues included.
C8_OneConnectOneBusRead ==
    op = "read" => (n_init <= 1 /\ n_xfer + n_base <= 1)

\* C8 (amended): for every driver one read_measurement call makes at most one
\* initialize() attempt and issues at most one measurement transaction; the
\* only other read transaction on the bus is the one baseline read_all() of a
\* MICS6814 connect attempt, so a read makes two bus reads only on the
\* MICS6814 driver and only when it made its connect attempt.
C8_OneConnectOneTransfer ==
    op = "read" =>
        /\ n_init <= 1 /\ n_xfer <= 1
        /\ n_base <= n_init
        /\ (kind /= "MICS6814" \/ n_init = 0) => n_xfer + n_base <= 1

\* a MICS6814 read that connects, reads the baseline and then the measurement
C8_Witness ==
    /\ op = "read" /\ kind = "MICS6814" /\ n_init = 1 /\ n_base = 1 /\ n_xfer = 1
    /\ fresh /= None

\* C9: connect returns True exactly when the driver ends Ready (initialized
\* and connected) and False exactly when it ends with initialized = False.
C9_ConnectResultMatchesState ==
    op = "connect" => (ret_ok = initialized /\ (ret_ok => connected))

\* C10: cleanup never raises, and a second cleanup in a row leaves the
\* instance's fields as the first one left them.
C10_CleanupIdempotent ==
    [][(op = "cleanup" /\ op' = "cleanup")
        => /\ ~raised'
           /\ <<initialized, connected, handle, last_valid_reading, baseline>>'
                = <<initialized, connected, handle, last_valid_reading, baseline>>]_vars

\* C11: when cleanup returns the driver is Disconnected (initialized = False
\* and connected = False), whatever state it was called from and whether or
\* not releasing the transport failed.
C11_CleanupDisconnects ==
    op = "cleanup" => (~initialized /\ ~connected)

\* C12: MICS6814: when cleanup returns, and when connect returns False after
\* it powered the heater, the heater is off and the LED is (0, 0, 0); the
\* driver is never Disconnected with the heater still powered.
C12_HeaterAndLedOff ==
    kind = "MICS6814" =>
        /\ (op = "cleanup" /\ handle /= "None") => (~heater /\ led = LedOff)
        /\ (op = "connect" /\ ~ret_ok /\ heated) => (~heater /\ led = LedOff)
        /\ (~initialized /\ ~connected) => ~heater

\* C13: MICS6814: once connect has succeeded, no read_measurement call
\* changes the calibration baseline, reads that follow a failed read
\* included.
C13_ReadNeverRebaselines ==
    [][(kind = "MICS6814" /\ connected /\ op' = "read") => baseline' = baseline]_vars

\* C14: MICS6814: whenever the driver is Disconnected (after cleanup or after
\* a failed connect) the three baseline channels are None.
C14_BaselineDiscarded ==
    (kind = "MICS6814" /\ ~initialized /\ ~connected) => baseline = NoBaseline

\* C15: MICS6814: is_valid_reading accepts a reading only if the three raw
\* readings are present and strictly positive and the three baseline values
\* are present and strictly positive.
C15_ValidateNeedsPositiveBaseline ==
    kind = "MICS6814" =>
        \A r \in ReadingSet :
            MICS_is_valid_reading(Self, r).ret =>
                \A c \in {"oxidising", "reducing", "nh3"} :
                    /\ r[c].some /\ r[c].v > 0
                    /\ baseline[c].some /\ baseline[c].v > 0

\* the colour the priority order gives for the ppm values of a record
PriorityColour(ppm) ==
    IF RLt(R(1, 10), ppm.no2) THEN <<255, 0, 0>>
    ELSE IF RLt(RInt(5), ppm.co) THEN <<255, 255, 0>>
    ELSE IF RLt(RInt(1), ppm.nh3) THEN <<255, 0, 255>>
    ELSE <<0, 255, 0>>

\* C16 (as stated): MICS6814: after a successful read the LED has the colour
\* of the priority order red (NO2 > 0.1), yellow (CO > 5.0), purple
\* (NH3 > 1.0), green; after any read that fails or whose readings
\* is_valid_reading rejects, the LED is as it was before the read.
C16_LedFollowsPriority ==
    (kind = "MICS6814" /\ available /\ op = "read") =>
        IF fresh /= None THEN led = PriorityColour(ret_data.ppm)
        ELSE led = pre_led

\* C16 (amended): MICS6814: after a successful read the LED has the colour of
\* the priority order; a read that fails or is rejected leaves the LED as it
\* was when the read made no connect attempt (initialize sets the LED green
\* and the cleanup of a failed initialize turns it off).
C16_LedFollowsPriorityOrUntouched ==
    (kind = "MICS6814" /\ available /\ op = "read") =>
        IF fresh /= None THEN led = PriorityColour(ret_data.ppm)
        ELSE n_init = 0 => led = pre_led

\* a read whose CO and NH3 values both exceed their thresholds: yellow wins
C16_Witness ==
    /\ kind = "MICS6814" /\ op = "read" /\ fresh /= None
    /\ RLt(RInt(5), ret_data.ppm.co) /\ RLt(RInt(1), ret_data.ppm.nh3)
    /\ led = LedYellow

\* C17: MCP3208: a constructor call with a channel outside 0..7 or with a
\* sensitivity <= 0 raises and yields no instance, so every instance has a
\* channel in 0..7 and a positive sensitivity, and no read is made with a
\* sensitivity <= 0.
C17_ConstructorValidates ==
    kind \in MCPKinds =>
        /\ constructed => (channel \in 0 .. 7 /\ RLt(RInt(0), sensitivity))
        /\ op = "read" => RLt(RInt(0), sensitivity)

\* C18: MCP3208 read_channel: on channel c in 0..7 the command is
\* [0x06 | (c >> 2), (c & 3) << 6, 0]; distinct channels give distinct
\* commands; the result is (low 4 bits of byte 2) * 256 + byte 3, in 0..4095.
C18_ReadChannelBytes ==
    /\ \A c1, c2 \in 0 .. 7 : c1 /= c2 => MCP_cmd(c1) /= MCP_cmd(c2)
    /\ (op = "read_channel" /\ adc.resp /= <<>>) =>
           /\ channel \in 0 .. 7
           /\ adc.cmd = <<6 + (channel \div 4), (channel % 4) * 64, 0>>
           /\ adc.result = (adc.resp[2] % 16) * 256 + adc.resp[3]
           /\ adc.result \in 0 .. 4095

\* channel 7 answered with the high bits of byte 2 set
C18_Witness ==
    /\ op = "read_channel" /\ channel = 7 /\ adc.cmd = <<7, 192, 0>>
    /\ adc.resp = <<255, 240, 255>> /\ adc.result = 255

\* a field that is an integer literal, a field that is a number (nan and inf
\* are not), and ten times the number it denotes
FieldIsInteger(f) == Len(strip(f)) = 1 /\ strip(f)[1].k = "int"

FieldIsNumeric(f) == Len(strip(f)) = 1 /\ strip(f)[1].k \in {"int", "dec"}

FieldTimes10(f) == strip(f)[1].x10

\* the record the line with fields p stands for is out
ParsedAs(p, out) ==
    /\ out /= None
    /\ out.gas_ppb * 10 = FieldTimes10(p[2])
    /\ out.gas_ppm = R(out.gas_ppb, 1000)
    /\ out.temperature = R(FieldTimes10(p[3]), 1000)
    /\ out.relative_humidity = R(FieldTimes10(p[4]), 1000)
    /\ out.adc_g * 10 = FieldTimes10(p[5])
    /\ out.adc_t * 10 = FieldTimes10(p[6])
    /\ out.adc_h * 10 = FieldTimes10(p[7])

ParseAgrees(p, out) ==
    /\ (/\ Len(p) >= 7
        /\ \A i \in {2, 5, 6, 7} : FieldIsInteger(p[i])
        /\ \A i \in {3, 4} : FieldIsNumeric(p[i])) => ParsedAs(p, out)
    /\ (\/ Len(p) < 7
        \/ \E i \in 2 .. 7 : ~FieldIsNumeric(p[i])) => out = None

\* C19: DGS2 parse_measurement: a line of at least 7 comma-separated fields
\* whose fields 1, 4, 5, 6 are integers and fields 2, 3 numbers gives a record
\* with gas_ppb = field 1, gas_ppm = gas_ppb / 1000, temperature and humidity
\* = fields 2, 3 divided by 100, adc_g/adc_t/adc_h = fields 4, 5, 6; a line
\* with fewer than 7 fields or a non-numeric field there gives None; nothing
\* is raised.
C19_ParseFields ==
    (kind = "DGS2" /\ op = "read") =>
        (~raised /\ ParseAgrees(split(parse_in), parse_out))

\* zero for a negative value
Floor0(x) == IF x < 0 THEN 0 ELSE x

RFloor0(x) == IF RLt(x, RInt(0)) THEN RInt(0) ELSE x

\* C20: DGS2: in the record a successful read_measurement returns, gas_ppb,
\* gas_ppm, relative_humidity, adc_g, adc_t and adc_h are >= 0, a negative
\* parsed value having become 0, and temperature is the parsed value, negative
\* or not.
C20_SanitizedExceptTemperature ==
    (kind = "DGS2" /\ op = "read" /\ fresh /= None) =>
        /\ ret_data = fresh
        /\ \A f \in {"gas_ppb", "adc_g", "adc_t", "adc_h"} :
               ret_data[f] >= 0 /\ ret_data[f] = Floor0(parse_out[f])
        /\ \A f \in {"gas_ppm", "relative_humidity"} :
               RLe(RInt(0), ret_data[f]) /\ ret_data[f] = RFloor0(parse_out[f])
        /\ ret_data.temperature = parse_out.temperature

\* what C21 says of a DGS2 record, of an ADC record and of a SEN66 record
DGS2_RecordInRange(d) ==
    /\ d.gas_ppb >= 0 /\ RLe(RInt(0), d.gas_ppm)
    /\ RLe(RInt(-40), d.temperature) /\ RLe(d.temperature, RInt(85))
    /\ RLe(RInt(0), d.relative_humidity) /\ RLe(d.relative_humidity, RInt(100))

SEN66_RecordInRange(d) ==
    /\ \A f \in {"pm1_0", "pm2_5", "pm4_0", "pm10", "VOC_Index", "NOx_Index", "CO2"} :
           d[f] >= 0
    /\ d.temperature >= -40 /\ d.temperature <= 85
    /\ d.humidity >= 0 /\ d.humidity <= 100

ValidateAgrees(k, d, accepted) ==
    IF d = None THEN ~accepted
    ELSE IF k = "DGS2" THEN accepted = DGS2_RecordInRange(d)
    ELSE IF k = "SEN66" THEN accepted = SEN66_RecordInRange(d)
    ELSE /\ RLt(d.concentration, RInt(0)) => ~accepted
         /\ d.concentration = RInt(0) => accepted

\* C21: is_valid_reading of the DGS2, MCP3208 (HCHO, NH3) and SEN66 drivers
\* rejects a record with a negative concentration, ppm, ppb, particulate,
\* VOC, NOx or CO2 field and accepts 0 there; for DGS2 and SEN66 it rejects
\* temperature outside [-40, 85] and humidity outside [0, 100] and accepts
\* -40, 85, 0 and 100; it rejects an empty record.
C21_ValidateRanges ==
    (op = "is_valid_reading" /\ kind \in {"DGS2", "SEN66"} \cup MCPKinds) =>
        ValidateAgrees(kind, call_arg, call_ret)

\* max(0, k * (num / den - 1))
FlooredRatio(k, num, den) ==
    RMax(RInt(0), RMul(k, RSub(R(num, den), RInt(1))))

PpmAgrees(current, b, g, ppm) ==
    /\ ~RLt(ppm, RInt(0))
    /\ (\/ current <= 0 \/ ~b.some \/ b.v <= 0
        \/ g \notin {"oxidising", "reducing", "nh3"}) => ppm = RInt(0)
    /\ (current > 0 /\ b.some /\ b.v > 0) =>
           /\ g = "oxidising" => ppm = FlooredRatio(R(1, 10), b.v, current)
           /\ g = "reducing" => ppm = FlooredRatio(RInt(4), current, b.v)
           /\ g = "nh3" => ppm = FlooredRatio(RInt(5), current, b.v)

\* C22: MICS6814 calculate_ppm: for positive current and baseline the result
\* is max(0, 0.1 * (baseline / current - 1)) for oxidising,
\* max(0, 4.0 * (current / baseline - 1)) for reducing and
\* max(0, 5.0 * (current / baseline - 1)) for nh3; it is never negative, and
\* it is 0 for a current <= 0, a baseline that is None or <= 0, or an unknown
\* gas type.
C22_PpmFormula ==
    op = "calculate_ppm" =>
        PpmAgrees(call_arg.current, call_arg.baseline_value, call_arg.gas_type, call_ret)

\* baseline 200, reading 220 on the reducing channel gives 0.4
C22_Witness ==
    /\ op = "calculate_ppm"
    /\ call_arg = [current |-> 220, baseline_value |-> Some(200), gas_type |-> "reducing"]
    /\ call_ret = R(2, 5)

\* the field of the record that index k (counted from 0) of the vector goes to
FieldOfIndex ==
    <<"pm1_0", "pm2_5", "pm4_0", "pm10", "humidity", "temperature", "VOC_Index",
      "NOx_Index", "CO2">>

\* C23: SEN66: every record read_measurement builds takes index 0 of the
\* device's vector as pm1.0, 1 as pm2.5, 2 as pm4.0, 3 as pm10, 4 as humidity,
\* 5 as temperature, 6 as VOC_Index, 7 as NOx_Index and 8 as CO2; the nine
\* fields are distinct, so no index is used twice or left out.
C23_IndexMapping ==
    (kind = "SEN66" /\ op = "read" /\ fresh /= None) =>
        /\ \A k \in 0 .. 8 : fresh[FieldOfIndex[k + 1]] = sen_values[k + 1]
        /\ DOMAIN fresh = {"sensor"} \cup {FieldOfIndex[k] : k \in 1 .. 9}
        /\ Cardinality({FieldOfIndex[k] : k \in 1 .. 9}) = 9

\* a vector of nine different values, read into a record
C23_Witness ==
    /\ kind = "SEN66" /\ op = "read" /\ fresh /= None
    /\ Cardinality({sen_values[k] : k \in 1 .. 9}) = 9
    /\ ret_data = fresh

\* C24: MICS6814: connect powers the heater, waits, captures a baseline
\* reading of the three channels and only then becomes Ready; so whenever the
\* driver is Ready (initialized) the three baseline channels are present.
C24_ReadyHasBaseline ==
    kind = "MICS6814" =>
        /\ (op = "connect" /\ ret_ok) => heated
        /\ initialized =>
               \A c \in {"oxidising", "reducing", "nh3"} : baseline[c].some

\* C25: DGS2: a connect that marks the driver initialized has, after opening
\* the port, written the test command (empty command and carriage return)
\* and read one response line.
C25_TestCommandDuringConnect ==
    (kind = "DGS2" /\ op = "connect" /\ ret_ok) => test_sent

\* C26: MICS6814: on an instance constructed with enable_led = False no
\* read_measurement call changes the LED colour.  Stated for the reads that
\* make no connect attempt, where update_led is the only call that can set
\* the LED.
C26_LedDisabledUntouched ==
    (kind = "MICS6814" /\ ~enable_led /\ op = "read" /\ n_init = 0) => led = pre_led

\* C27: at most one transport handle opened by the instance is open at any
\* time: the handle self refers to and a handle it opened earlier and no
\* longer refers to are never open together.
C27_OneOpenHandle ==
    ~(orphan_open /\ dev_open)

\* C28: connect and cleanup leave the last-valid cache unchanged; once the
\* cache holds a record no operation empties it; and a read that fails while
\* the driver is not initialized (after cleanup, or after a failed reconnect)
\* returns the record that was cached before it.
C28_CacheSurvives ==
    [][/\ op' \in {"connect", "cleanup"} => last_valid_reading' = last_valid_reading
       /\ last_valid_reading /= None => last_valid_reading' /= None
       /\ (/\ op' = "read" /\ last_valid_reading /= None /\ ~initialized
           /\ (fresh' = None \/ xfer_exc'))
          => ret_data' = last_valid_reading]_vars

====
